---- MODULE Spec2Model ----
(***************************************************************************)
(* Model of pkg/api/config/config.go: a process-local cache of APIConfig   *)
(* records, reloaded from the database when older than refreshPeriod and   *)
(* guarded by a sync.RWMutex.  Time is counted in minutes.                 *)
(***************************************************************************)
EXTENDS Integers, Sequences, FiniteSets, TLC

\* ---------------------------------------------------------------- bounds
NumProcs == 2        \* request-handling goroutines calling AppPkgConfig
MaxCalls == 3        \* calls to AppPkgConfig made in one behaviour
MaxTime == 1         \* minutes the clock may advance after process start
MaxDuration == 8     \* largest time.Duration (stands for 1<<63 - 1 ns)
MaxEnvLen == 3       \* longest value of CONFIG_REFRESH_DURATION tried

\* ------------------------------------------------------------- constants
Minute == 1
defaultRefreshPeriod == Minute
ZeroTime == 0

Procs == 1..NumProcs
None == 0
Keys == {"a", "b", "c"}
NoTime == 0 - 1
\* the wall clock at process start is further from the zero Time than any
\* Duration can express
StartTime == ZeroTime + MaxDuration + 1

\* ------------------------------------------------------------ time.Time
\* (variant: the difference wraps around instead of saturating)
SubWraps(t, u) ==
  LET d == t - u
  IN  IF d > MaxDuration THEN d - 2 * (MaxDuration + 1)
      ELSE IF d < 0 - MaxDuration - 1 THEN d + 2 * (MaxDuration + 1)
      ELSE d

\* Time.Sub saturates at the largest / smallest Duration
Sub(t, u) ==
  LET d == t - u
  IN  IF d > MaxDuration THEN MaxDuration
      ELSE IF d < 0 - MaxDuration - 1 THEN 0 - MaxDuration - 1
      ELSE d

\* ------------------------------------------------- CONFIG_REFRESH_DURATION
Digits == {"0", "1", "2", "3", "4", "5", "6", "7", "8", "9"}
DigitVal(ch) ==
  CASE ch = "0" -> 0 [] ch = "1" -> 1 [] ch = "2" -> 2 [] ch = "3" -> 3
    [] ch = "4" -> 4 [] ch = "5" -> 5 [] ch = "6" -> 6 [] ch = "7" -> 7
    [] ch = "8" -> 8 [] ch = "9" -> 9

RECURSIVE LeadingInt(_, _)
\* value of the decimal digits of s, continuing from acc
LeadingInt(s, acc) ==
  IF s = << >> THEN acc
  ELSE LeadingInt(Tail(s), acc * 10 + DigitVal(Head(s)))

\* the number of leading characters of s that are digits
RECURSIVE DigitsLen(_)
DigitsLen(s) ==
  IF s # << >> /\ Head(s) \in Digits THEN 1 + DigitsLen(Tail(s)) ELSE 0

\* the number of leading characters of s that are not digits: a unit name
RECURSIVE UnitLen(_)
UnitLen(s) ==
  IF s # << >> /\ Head(s) \notin Digits THEN 1 + UnitLen(Tail(s)) ELSE 0

\* the unit names ParseDuration knows, of the ones written here
unitMap == [u \in {<<"m">>} |-> Minute]

RECURSIVE ParseTerms(_, _)
\* the loop of time.ParseDuration: the sum of the terms digits unit of s added
\* to d; numbers above 1<<63 (here MaxDuration + 1) are an error
ParseTerms(s, d) ==
  LET n    == DigitsLen(s)
      v    == LeadingInt(SubSeq(s, 1, n), 0)
      rest == SubSeq(s, n + 1, Len(s))
      u    == UnitLen(rest)
      unit == SubSeq(rest, 1, u)
      bad  == [err |-> TRUE, d |-> 0]
  IN  IF s = << >> THEN [err |-> FALSE, d |-> d]
      ELSE IF n = 0 \/ v > MaxDuration + 1 THEN bad
      ELSE IF u = 0 \/ unit \notin DOMAIN unitMap THEN bad
      ELSE IF v * unitMap[unit] > MaxDuration + 1 THEN bad
      ELSE IF d + v * unitMap[unit] > MaxDuration + 1 THEN bad
      ELSE ParseTerms(SubSeq(rest, u + 1, Len(rest)), d + v * unitMap[unit])

\* time.ParseDuration on strings of signs, digits and unit names:
\* [-+]?(digits unit)+ or [-+]?0
ParseDuration(s) ==
  LET neg  == s # << >> /\ Head(s) = "-"
      body == IF s # << >> /\ Head(s) \in {"-", "+"} THEN Tail(s) ELSE s
      sum  == ParseTerms(body, 0)
      bad  == [err |-> TRUE, d |-> 0]
  IN  IF body = <<"0">> THEN [err |-> FALSE, d |-> 0]
      ELSE IF body = << >> \/ sum.err THEN bad
      ELSE IF neg THEN [err |-> FALSE, d |-> 0 - sum.d]
      ELSE IF sum.d > MaxDuration THEN bad
      ELSE [err |-> FALSE, d |-> sum.d]

\* values of CONFIG_REFRESH_DURATION: unset, malformed, and two periods, the
\* second above five minutes.  All give a positive refresh period; with a
\* zero or negative one no load is ever fresh and every call reads the store.
EnvValues ==
  { << >>, <<"x">>, <<"2", "m">>, <<"8", "m">> }

\* every value of CONFIG_REFRESH_DURATION of up to MaxEnvLen characters
EnvChars == {"-", "0", "2", "8", "9", "m", "x"}
EnvStrings == UNION {[1..n -> EnvChars] : n \in 0..MaxEnvLen}

\* (variant: a period above five minutes is refused and the default kept)
newConfigPeriodCapped(ds) ==
  IF ds # << >> /\ ~ParseDuration(ds).err /\ ParseDuration(ds).d <= Minute * 5
    THEN ParseDuration(ds).d
    ELSE defaultRefreshPeriod

\* (variant: a zero or negative period is refused and the default kept)
newConfigPeriodPositive(ds) ==
  IF ds # << >> /\ ~ParseDuration(ds).err /\ ParseDuration(ds).d > 0
    THEN ParseDuration(ds).d
    ELSE defaultRefreshPeriod

\* newConfig: the refresh period chosen for an environment value
newConfigPeriod(ds) ==
  IF ds # << >> /\ ~ParseDuration(ds).err THEN ParseDuration(ds).d
  ELSE defaultRefreshPeriod

\* newConfig: whether the "> 5 minutes" warning is logged
newConfigWarns(ds) == newConfigPeriod(ds) > Minute * 5

\* the process before globalConfig is set: os.Getenv will give newConfig the
\* value ds, no warning is logged
NotStarted(ds) == [ds |-> ds, ready |-> FALSE, warn |-> 0]

\* the process once newConfig has returned: globalConfig is set and the Warn
\* entry is logged for a period above 5 minutes.  Nothing reads the
\* environment again, so its value is not kept.
Started(ds) ==
  [ds |-> << >>, ready |-> TRUE, warn |-> IF newConfigWarns(ds) THEN 1 ELSE 0]

\* --------------------------------------------------------------- records
\* *model.APIConfig: the record for package k at position i of the rows
\* returned by the g-th call of database.ReadAPIConfigs
Record(k, g, i) == [pkg |-> k, read |-> g, idx |-> i]
NoRecord == [pkg |-> "", read |-> 0, idx |-> 0]

\* the package names of the rows a read may return, in order
Shapes == { <<"a", "b">>, <<"b", "b">> }
Content(shape, g) == [i \in DOMAIN shape |-> Record(shape[i], g, i)]

\* map[string]*model.APIConfig
EmptyMap == [k \in {} |-> NoRecord]
\* (variant: a key already in the map keeps its record)
PutIfAbsent(m, k, r) ==
  [x \in (DOMAIN m) \cup {k} |-> IF x \in DOMAIN m THEN m[x] ELSE r]

\* m[k] = r
Put(m, k, r) == [x \in (DOMAIN m) \cup {k} |-> IF x = k THEN r ELSE m[x]]
\* m[k] with the comma-ok form
MapGet(m, k) ==
  IF k \in DOMAIN m THEN [rec |-> m[k], ok |-> TRUE]
  ELSE [rec |-> NoRecord, ok |-> FALSE]

VARIABLES
  mu,            \* sync.RWMutex: [w: writer pending or active, readers]
  lastLoadTime,  \* config.lastLoadTime
  cache,         \* config.cache
  refreshPeriod, \* config.refreshPeriod
  startup,       \* CONFIG_REFRESH_DURATION, and what newConfig has done
  now,           \* the clock
  alive,         \* the process has not exited
  pc,            \* position of each goroutine
  appPkg,        \* argument of the call in progress
  configs,       \* loadConfig: result of ReadAPIConfigs
  next,          \* loadConfig: loop position in configs
  result,        \* last value returned by AppPkgConfig: [rec, err]
  calls,         \* calls made so far
  log,           \* history: the store reads, [state, res, end]
  trace          \* history: per goroutine, what its current call has done

vars == << mu, lastLoadTime, cache, refreshPeriod, startup, now, alive, pc, appPkg,
           configs, next, result, calls, log, trace >>

\* what a call in progress has done.  expired: the load that was the newest
\* and had expired when the call began (0: nothing was loaded yet), NoGen if
\* the cache was fresh; late: a read had failed when the call began; read: the
\* store read the call made; began: the time at which that read was called;
\* gen: the newest load when its loadConfig returned; errs: the Errorf
\* entries it wrote (kept after the return)
NoGen == 0 - 1
NoTrace == [expired |-> NoGen, late |-> FALSE, read |-> 0, began |-> NoTime,
            gen |-> 0, errs |-> 0]
NoResult == [rec |-> NoRecord, err |-> "none"]

\* reads whose rows have been stored and stamped
Loaded == {g \in DOMAIN log : log[g].state = "loaded"}
\* the newest completed load, 0 before the first
Gen == IF Loaded = {} THEN 0 ELSE CHOOSE g \in Loaded : \A h \in Loaded : h <= g
\* a store read has failed
Failed == \E g \in DOMAIN log : log[g].state = "failed"

\* ------------------------------------------------------------------ Init
\* (variant: the cache counts as loaded at construction)
InitialLoadTimeNow == StartTime

\* cfg := &config{cache: ..., refreshPeriod: ...} leaves lastLoadTime zero
InitialLoadTime == ZeroTime

\* the state newConfig does not set: the clock, the goroutines, the history
Quiet ==
  /\ mu = [w |-> None, readers |-> {}]
  /\ now = StartTime
  /\ alive = TRUE
  /\ pc = [p \in Procs |-> "idle"]
  /\ appPkg = [p \in Procs |-> ""]
  /\ configs = [p \in Procs |-> << >>]
  /\ next = [p \in Procs |-> 0]
  /\ result = [p \in Procs |-> NoResult]
  /\ calls = 0
  /\ log = << >>
  /\ trace = [p \in Procs |-> NoTrace]

\* the state once var globalConfig = newConfig() has run with the environment
\* value ds
Constructed(ds) ==
  /\ startup = Started(ds)
  /\ refreshPeriod = newConfigPeriod(ds)
  /\ lastLoadTime = InitialLoadTime
  /\ cache = EmptyMap
  /\ Quiet

\* var globalConfig = newConfig()
Init == \E ds \in EnvValues : Constructed(ds)

\* the process before its package variables are set: globalConfig is nil, the
\* fields of a config have their zero values, the environment holds any value
InitEnv ==
  /\ \E ds \in EnvStrings : startup = NotStarted(ds)
  /\ refreshPeriod = 0
  /\ lastLoadTime = ZeroTime
  /\ cache = EmptyMap
  /\ Quiet

\* var globalConfig = newConfig(): newConfig always returns a config
newConfig ==
  /\ ~startup.ready
  /\ startup' = Started(startup.ds)
  /\ refreshPeriod' = newConfigPeriod(startup.ds)
  /\ lastLoadTime' = InitialLoadTime
  /\ cache' = EmptyMap
  /\ UNCHANGED << mu, now, alive, pc, appPkg, configs, next, result, calls,
                  log, trace >>

\* ----------------------------------------------------------- environment
\* the clock advances
Tick ==
  /\ now < StartTime + MaxTime
  /\ now' = now + 1
  /\ UNCHANGED << mu, lastLoadTime, cache, refreshPeriod, startup, alive, pc, appPkg,
                  configs, next, result, calls, log, trace >>

\* ------------------------------------------------------------ sync.RWMutex
\* (variant: Lock does not exclude other writers)
CanLockAnyway(p) == TRUE

\* Lock first excludes other writers and new readers ...
CanLock(p) == mu.w = None
\* (variant: the writer does not wait for the readers)
CanLockProceedEarly(p) == mu.w = p

\* ... and then waits for the active readers to leave
CanLockProceed(p) == mu.w = p /\ mu.readers = {}
\* (variant: the reader does not wait for the writer)
CanRLockAnyway(p) == TRUE

\* RLock waits while a writer is pending or active
CanRLock(p) == mu.w = None

\* --------------------------------------------------------------- loadConfig
\* (variant: the expiry is not checked again under the lock)
FreshNever == FALSE

\* (variant: a load exactly refreshPeriod old still counts as fresh)
FreshInclusive == Sub(now, lastLoadTime) <= refreshPeriod

\* if time.Since(c.lastLoadTime) < c.refreshPeriod
Fresh == Sub(now, lastLoadTime) < refreshPeriod

\* AppPkgConfig(ctx, appPkg) is called, which the package variables being set
\* comes before, and reaches c.mu.Lock() in loadConfig.
\* Nothing reads appPkg before appConfig does, so its value is drawn there.
Call(p) ==
  /\ startup.ready
  /\ pc[p] \in {"idle", "done"}
  /\ calls < MaxCalls
  /\ calls' = calls + 1
  /\ pc' = [pc EXCEPT ![p] = "lock"]
  /\ appPkg' = [appPkg EXCEPT ![p] = ""]
  /\ result' = [result EXCEPT ![p] = NoResult]
  /\ trace' = [trace EXCEPT ![p] =
                  [NoTrace EXCEPT !.expired = IF Fresh THEN NoGen ELSE Gen,
                                  !.late = Failed]]
  /\ UNCHANGED << mu, lastLoadTime, cache, refreshPeriod, startup, now, alive, configs,
                  next, log >>

\* (variant: the lock is not released on return)
UnlockedNever(p) == mu

\* the deferred c.mu.Unlock()
Unlocked(p) == [mu EXCEPT !.w = IF mu.w = p THEN None ELSE mu.w]

\* Lock has returned.  The cache isn't expired: return nil, which runs the
\* deferred Unlock, and AppPkgConfig goes on to globalConfig.appConfig(appPkg)
CheckFresh(p) ==
  /\ Fresh
  /\ mu' = Unlocked(p)
  /\ pc' = [pc EXCEPT ![p] = "rlock"]
  /\ trace' = [trace EXCEPT ![p].gen = Gen]
  /\ UNCHANGED log

\* Lock has returned.  The cache is expired: database.ReadAPIConfigs(ctx) is
\* called
CheckExpired(p) ==
  /\ ~Fresh
  /\ mu' = [mu EXCEPT !.w = p]
  /\ pc' = [pc EXCEPT ![p] = "read"]
  /\ log' = Append(log, [state |-> "reading", res |-> << >>, end |-> NoTime])
  /\ trace' = [trace EXCEPT ![p].read = Len(log) + 1, ![p].began = now]

\* c.mu.Lock(): the writer announces itself, which holds off other writers
\* and new readers.  With no reader active Lock returns at once and the
\* expiry is checked; otherwise the writer waits for the readers to leave.
Lock(p) ==
  /\ pc[p] = "lock"
  /\ CanLock(p)
  /\ IF mu.readers = {}
       THEN CheckFresh(p) \/ CheckExpired(p)
       ELSE /\ mu' = [mu EXCEPT !.w = p]
            /\ pc' = [pc EXCEPT ![p] = "lockWait"]
            /\ UNCHANGED << log, trace >>
  /\ UNCHANGED << lastLoadTime, cache, refreshPeriod, startup, now, alive, appPkg,
                  configs, next, result, calls >>

\* c.mu.Lock() after a wait: the readers have left, Lock returns and the
\* expiry is checked
LockAfterWait(p) ==
  /\ pc[p] = "lockWait"
  /\ CanLockProceed(p)
  /\ CheckFresh(p) \/ CheckExpired(p)
  /\ UNCHANGED << lastLoadTime, cache, refreshPeriod, startup, now, alive, appPkg,
                  configs, next, result, calls >>

\* (variant: the rows are stored into the map already there)
NewCacheMerged == cache

\* make(map[string]*model.APIConfig)
NewCache == EmptyMap

\* ReadAPIConfigs returns the current rows of the database, whatever they
\* are; c.cache = make(map[string]*model.APIConfig)
ReadRows(p, sh) ==
  /\ pc[p] = "read"
  /\ configs' = [configs EXCEPT ![p] = Content(sh, trace[p].read)]
  /\ log' = [log EXCEPT ![trace[p].read].state = "building",
                        ![trace[p].read].res = Content(sh, trace[p].read)]
  /\ cache' = NewCache
  /\ next' = [next EXCEPT ![p] = 1]
  /\ pc' = [pc EXCEPT ![p] = "range"]
  /\ UNCHANGED << mu, lastLoadTime, refreshPeriod, startup, now, alive, appPkg, result,
                  calls, trace >>

\* ... with any of the rows the database may hold
ReadOk(p) == \E sh \in Shapes : ReadRows(p, sh)

\* (variant: the error is returned without the fatal log)
ErrBranchReturns == "rlock"

\* if err != nil { logger.Fatalf(...) ... }
ErrBranch == "fatal"

\* ReadAPIConfigs returns an error
ReadErr(p) ==
  /\ pc[p] = "read"
  /\ pc' = [pc EXCEPT ![p] = ErrBranch]
  /\ log' = [log EXCEPT ![trace[p].read].state = "failed"]
  /\ UNCHANGED << mu, lastLoadTime, cache, refreshPeriod, startup, now, alive, appPkg,
                  configs, next, result, calls, trace >>

\* logger.Fatalf("error loading APIConfig: %v", err) exits the server
Fatalf(p) ==
  /\ pc[p] = "fatal"
  /\ alive' = FALSE
  /\ UNCHANGED << mu, lastLoadTime, cache, refreshPeriod, startup, now, pc, appPkg,
                  configs, next, result, calls, log, trace >>

\* logger.Fatalf(...) comes back instead of exiting: return err, which runs
\* the deferred Unlock; AppPkgConfig drops the error and goes on to
\* globalConfig.appConfig(appPkg)
FatalfReturns(p) ==
  /\ pc[p] = "fatal"
  /\ mu' = Unlocked(p)
  /\ pc' = [pc EXCEPT ![p] = "rlock"]
  /\ trace' = [trace EXCEPT ![p].gen = Gen]
  /\ UNCHANGED << lastLoadTime, cache, refreshPeriod, startup, now, alive,
                  appPkg, configs, next, result, calls, log >>

\* (variant: every record is stored under one key)
CacheKeyFixed(r) == "a"

\* the key of c.cache[apiConfig.AppPackageName] = apiConfig
CacheKey(r) == r.pkg

\* one round of: for _, apiConfig := range configs { c.cache[...] = apiConfig }
RangeStep(p) ==
  /\ pc[p] = "range"
  /\ next[p] <= Len(configs[p])
  /\ cache' = Put(cache, CacheKey(configs[p][next[p]]), configs[p][next[p]])
  /\ next' = [next EXCEPT ![p] = next[p] + 1]
  /\ UNCHANGED << mu, lastLoadTime, refreshPeriod, startup, now, alive, pc, appPkg,
                  configs, result, calls, log, trace >>

\* (variant: the load time is not advanced)
LoadTimeKept == lastLoadTime
\* (variant: the time is taken before the store is read)
LoadTimeAtStart == trace[mu.w].began

\* c.lastLoadTime = time.Now()
LoadTime == now

\* the loop is over: c.lastLoadTime = time.Now(); return nil, which runs the
\* deferred Unlock; AppPkgConfig goes on to globalConfig.appConfig(appPkg)
Stamp(p) ==
  /\ pc[p] = "range"
  /\ next[p] > Len(configs[p])
  /\ lastLoadTime' = LoadTime
  /\ configs' = [configs EXCEPT ![p] = << >>]
  /\ next' = [next EXCEPT ![p] = 0]
  /\ mu' = Unlocked(p)
  /\ pc' = [pc EXCEPT ![p] = "rlock"]
  /\ log' = [log EXCEPT ![trace[p].read].state = "loaded",
                        ![trace[p].read].end = now]
  /\ trace' = [trace EXCEPT ![p].gen = trace[p].read]
  /\ UNCHANGED << cache, refreshPeriod, startup, now, alive, appPkg, result, calls >>

\* ---------------------------------------------------------------- appConfig
\* (variant: the reader is not counted, so that a writer does not wait for it)
RLockedUncounted(p) == mu

\* the lock once p holds it shared
RLocked(p) == [mu EXCEPT !.readers = mu.readers \cup {p}]

\* c.mu.RLock()
RLock(p) ==
  /\ pc[p] = "rlock"
  /\ CanRLock(p)
  /\ mu' = RLocked(p)
  /\ pc' = [pc EXCEPT ![p] = "lookup"]
  /\ UNCHANGED << lastLoadTime, cache, refreshPeriod, startup, now, alive, appPkg,
                  configs, next, result, calls, log, trace >>

\* ------------------------------------------------------------- AppPkgConfig
\* (variant: a missing package is reported as an error)
ReturnedErrOnMiss(p, ok) == IF ok THEN "nil" ELSE "unconfigured"

\* the error AppPkgConfig returns next to the record
ReturnedErr(p, ok) == "nil"

\* (variant: the miss is not logged)
MissLoggedNever(ok) == 0

\* if !ok { logger.Errorf(...) }: the number of entries written
MissLogged(ok) == IF ok THEN 0 ELSE 1

\* (variant: the shared lock is not released on return)
RUnlockedNever(p) == mu

\* the deferred c.mu.RUnlock()
RUnlocked(p) == [mu EXCEPT !.readers = mu.readers \ {p}]

\* appConfig, ok := c.cache[appPkg], the deferred c.mu.RUnlock(), and back in
\* AppPkgConfig: if !ok { logger.Errorf(...) }; return appConfig, nil
Lookup(p, k) ==
  LET got == MapGet(cache, k)
  IN  /\ pc[p] = "lookup"
      /\ mu' = RUnlocked(p)
      /\ trace' = [trace EXCEPT ![p] = [NoTrace EXCEPT
                                           !.errs = MissLogged(got.ok)]]
      /\ result' = [result EXCEPT ![p] = [rec |-> got.rec,
                                          err |-> ReturnedErr(p, got.ok)]]
      /\ pc' = [pc EXCEPT ![p] = "done"]
      /\ appPkg' = [appPkg EXCEPT ![p] = k]
      /\ UNCHANGED << lastLoadTime, cache, refreshPeriod, startup, now, alive, configs,
                      next, calls, log >>

\* --------------------------------------------------------------------- Next
Step(p) ==
  \/ Call(p)
  \/ Lock(p)
  \/ LockAfterWait(p)
  \/ ReadOk(p)
  \/ ReadErr(p)
  \/ Fatalf(p)
  \/ RangeStep(p)
  \/ Stamp(p)
  \/ RLock(p)
  \/ \E k \in Keys : Lookup(p, k)

Next ==
  /\ alive
  /\ \/ Tick
     \/ \E p \in Procs : Step(p)

Spec == Init /\ [][Next]_vars

\* the server with a fatal log call that returns
StepFatalReturns(p) ==
  \/ Call(p)
  \/ Lock(p)
  \/ LockAfterWait(p)
  \/ ReadOk(p)
  \/ ReadErr(p)
  \/ FatalfReturns(p)
  \/ RangeStep(p)
  \/ Stamp(p)
  \/ RLock(p)
  \/ Lookup(p, "b")

NextFatalReturns ==
  \/ Tick
  \/ \E p \in Procs : StepFatalReturns(p)

\* ... started with CONFIG_REFRESH_DURATION unset
InitDefault == Constructed(<< >>)

SpecFatalReturns == InitDefault /\ [][NextFatalReturns]_vars

\* the server with a store that always answers with the rows a, b, looking
\* up one package
StepReadsOk(p) ==
  \/ Call(p)
  \/ Lock(p)
  \/ LockAfterWait(p)
  \/ ReadRows(p, <<"a", "b">>)
  \/ RangeStep(p)
  \/ Stamp(p)
  \/ RLock(p)
  \/ Lookup(p, "b")

NextReadsOk ==
  \/ Tick
  \/ \E p \in Procs : StepReadsOk(p)

\* the steps of p that wait for nothing
Runs(p) ==
  \/ ReadRows(p, <<"a", "b">>)
  \/ RangeStep(p)
  \/ Stamp(p)
  \/ Lookup(p, "b")

\* the steps of p that may have to wait for the lock
Acquires(p) ==
  \/ Lock(p)
  \/ LockAfterWait(p)
  \/ RLock(p)

\* a goroutine that can run does run, and one that waits for a lock which
\* stays available gets it; nothing makes the clock advance or a call begin.
\* The calls being bounded, a lock is contended only finitely often, so this
\* weak form of fair locking is all that is assumed.
Fairness ==
  \A p \in Procs : WF_vars(Runs(p)) /\ WF_vars(Acquires(p))

SpecFair == Init /\ [][NextReadsOk]_vars /\ Fairness

\* values of CONFIG_REFRESH_DURATION that parse to a zero or negative period
NonPositiveEnv == { <<"0">>, <<"-", "2", "m">> }

\* the process from before newConfig, with such a value in the environment
InitNonPositive ==
  /\ \E ds \in NonPositiveEnv : startup = NotStarted(ds)
  /\ refreshPeriod = 0
  /\ lastLoadTime = ZeroTime
  /\ cache = EmptyMap
  /\ Quiet

NextNonPositive ==
  \/ newConfig
  \/ NextReadsOk

SpecNonPositive == InitNonPositive /\ [][NextNonPositive]_vars

\* process start alone, for every environment value
NextNewConfig == newConfig
SpecNewConfig == InitEnv /\ [][NextNewConfig]_vars

\* ================================================================ properties
\* positions between the staleness check and the end of the reload
InRefresh(p) == pc[p] \in {"read", "range", "fatal"}
\* positions after loadConfig has returned
PastRefresh(p) == pc[p] \in {"rlock", "lookup", "done"}
\* the package names among rows
KeysOf(rows) == {rows[i].pkg : i \in DOMAIN rows}
\* the snapshot a complete build from rows gives: the last row of each name
MapOf(rows) ==
  [k \in KeysOf(rows) |->
     rows[CHOOSE i \in DOMAIN rows :
            /\ rows[i].pkg = k
            /\ \A j \in DOMAIN rows : rows[j].pkg = k => j <= i]]
\* the snapshot of generation g; generation 0 is the initial empty map
SnapshotOf(g) == IF g = 0 THEN EmptyMap ELSE MapOf(log[g].res)

\* C1: the calls made while the first load is fresh cause one store read in
\* all: no call gets past loadConfig before a read was made, and as long as
\* less than refreshPeriod has passed since the first load there has been
\* exactly one read, however the callers interleave.
C1_OneReadPerInterval ==
  /\ \A p \in Procs : PastRefresh(p) => Len(log) >= 1
  /\ (1 \in Loaded /\ Sub(now, log[1].end) < refreshPeriod) => Len(log) = 1

\* two callers found the cache expired, one of them read the store, the other
\* got the lock afterwards and skipped the read; both are about to look up
C1_Witness ==
  \E p, q \in Procs :
    /\ p # q
    /\ pc[p] = "lookup" /\ pc[q] = "lookup"
    /\ trace[p].expired = 0 /\ trace[q].expired = 0
    /\ trace[p].read = 1 /\ trace[q].read = 0
    /\ Len(log) = 1
    /\ Sub(now, log[1].end) < refreshPeriod

\* C2: at most one caller is between the staleness check and the end of the
\* reload; it holds the exclusive lock, and meanwhile no other caller is in
\* its refresh or inside the lookup's critical section.
C2_OneRefreshAtATime ==
  \A p \in Procs :
    InRefresh(p) =>
      /\ mu.w = p
      /\ mu.readers = {}
      /\ \A q \in Procs \ {p} : ~InRefresh(q) /\ pc[q] # "lookup"

\* one caller is half way through rebuilding the cache while another one
\* waits for the lock
C2_Witness ==
  \E p, q \in Procs :
    /\ p # q
    /\ pc[p] = "range" /\ next[p] = 2 /\ Len(configs[p]) = 2
    /\ pc[q] \in {"lock", "rlock"}

\* C3: a read after the first is made only when the load before it is
\* complete; a caller that gets the lock reads the store exactly when no load
\* was made yet or refreshPeriod has passed since the newest one, and never
\* otherwise; and while less than refreshPeriod has passed since a load no
\* further read has been made, so an expiry causes one read, not one per
\* caller.
C3_RetriggerOnce ==
  /\ [](\A g \in DOMAIN log :
          /\ g >= 2 => log[g - 1].state = "loaded"
          /\ (g \in Loaded /\ Sub(now, log[g].end) < refreshPeriod)
               => Len(log) = g)
  /\ [][\A p \in Procs :
          (pc[p] \in {"lock", "lockWait"} /\ pc'[p] \in {"read", "rlock"})
            => /\ pc'[p] = "read"
                    <=> (Gen = 0 \/ now - log[Gen].end >= refreshPeriod)
               /\ Len(log') = Len(log) + (IF pc'[p] = "read" THEN 1 ELSE 0)]_vars

\* two callers arrived after the first load had expired; one read the store
\* again, the other found the second load fresh; both are about to look up
C3_Witness ==
  \E p, q \in Procs :
    /\ p # q
    /\ pc[p] = "lookup" /\ pc[q] = "lookup"
    /\ trace[p].expired = 1 /\ trace[q].expired = 1
    /\ trace[p].read = 2 /\ trace[q].read = 0 /\ trace[q].gen = 2
    /\ Len(log) = 2
    /\ refreshPeriod > 0

\* the rows for package k among rows
RowsFor(rows, k) == {rows[i] : i \in {j \in DOMAIN rows : rows[j].pkg = k}}
\* the step in which p looks its package up and AppPkgConfig returns
Returns(p) == pc[p] = "lookup" /\ pc'[p] = "done"

\* C4: whenever a lookup is inside its critical section the cache is the
\* initial empty map or exactly the map a complete build from the rows of one
\* completed store read gives; never a part of one, never a mix of two.
C4_AtomicSnapshot ==
  \A p \in Procs :
    pc[p] = "lookup" => \E g \in Loaded \cup {0} : cache = SnapshotOf(g)

\* a lookup is inside its critical section on the snapshot of the second
\* load, which differs from that of the first
C4_Witness ==
  \E p \in Procs :
    /\ pc[p] = "lookup"
    /\ Loaded = {1, 2}
    /\ cache = SnapshotOf(2)
    /\ KeysOf(log[1].res) # KeysOf(log[2].res)

\* C5: a lookup that begins after a refresh returned works on the snapshot of
\* that refresh's generation or of a later one, in full; the record
\* AppPkgConfig returns is what such a snapshot holds for the package.
C5_LookupAfterRefresh ==
  /\ [](\A p \in Procs :
          pc[p] = "lookup" =>
            \E g \in Loaded \cup {0} :
              g >= trace[p].gen /\ cache = SnapshotOf(g))
  /\ [][\A p \in Procs :
          Returns(p) =>
            \E g \in Loaded \cup {0} :
              /\ g >= trace[p].gen
              /\ result'[p].rec = MapGet(SnapshotOf(g), appPkg'[p]).rec]_vars

\* a call whose refresh returned at generation 1 was overtaken by a second
\* load and begins its lookup on the different snapshot of generation 2
C5_Witness ==
  \E p \in Procs :
    /\ pc[p] = "lookup"
    /\ trace[p].gen = 1
    /\ Gen = 2
    /\ cache = SnapshotOf(2)
    /\ SnapshotOf(1) # SnapshotOf(2)

\* C6: a lookup of a package that is among the rows of the most recent
\* completed store read returns one of that read's rows for the package
\* (found).
C6_PresentFound ==
  [][\A p \in Procs :
       (Returns(p) /\ Gen >= 1 /\ appPkg'[p] \in KeysOf(log[Gen].res))
         => result'[p].rec \in RowsFor(log[Gen].res, appPkg'[p])]_vars

\* "b" was looked up after the second load and found with that load's record
C6_Witness ==
  \E p \in Procs :
    /\ pc[p] = "done"
    /\ Gen = 2
    /\ appPkg[p] = "b"
    /\ result[p].rec \in RowsFor(log[2].res, "b")

\* C7: a lookup of a package that is not among the rows of the most recent
\* completed store read returns no record and a nil error, writes exactly
\* one Errorf entry, and changes neither the cache, the load time, the
\* refresh period nor the store reads made; a call that found its package
\* writes none.
C7_AbsentLogged ==
  /\ [](\A p \in Procs :
          pc[p] = "done" =>
            trace[p].errs = (IF result[p].rec = NoRecord THEN 1 ELSE 0))
  /\ [][\A p \in Procs :
          (Returns(p) /\ (Gen = 0 \/ appPkg'[p] \notin KeysOf(log[Gen].res)))
            => /\ result'[p] = [rec |-> NoRecord, err |-> "nil"]
               /\ trace'[p].errs = 1
               /\ UNCHANGED << cache, lastLoadTime, refreshPeriod, log >>]_vars

\* "a" was in the first load, is not in the second, and a call after the
\* second load returned nothing for it and logged once
C7_Witness ==
  \E p \in Procs :
    /\ pc[p] = "done"
    /\ Loaded = {1, 2}
    /\ "a" \in KeysOf(log[1].res) /\ "a" \notin KeysOf(log[2].res)
    /\ appPkg[p] = "a"
    /\ result[p].rec = NoRecord
    /\ trace[p].errs = 1

\* C8: once a store read has failed, the goroutine that made it goes nowhere
\* but to the exit of the process, still holding the exclusive lock; the
\* failed read is the last one made; nobody takes or releases the lock and
\* the cache is not touched any more; a call begun after the failure stays
\* blocked at the lock and returns nothing; after the exit nothing happens.
C8_ReadFailureFatal ==
  /\ [](Failed =>
          /\ log[Len(log)].state = "failed"
          /\ \E p \in Procs :
               pc[p] = "fatal" /\ mu.w = p /\ trace[p].read = Len(log)
          /\ \A q \in Procs :
               trace[q].late => pc[q] = "lock" /\ result[q] = NoResult)
  /\ [][/\ alive
        /\ Failed => UNCHANGED << mu, cache, lastLoadTime, log >>]_vars

\* the process has exited on a failed reload of a loaded cache while a call
\* made after the failure was waiting for the lock
C8_Witness ==
  /\ ~alive
  /\ Gen >= 1
  /\ \E p, q \in Procs :
       /\ pc[p] = "fatal"
       /\ trace[q].late /\ pc[q] = "lock"

\* C9: the cache starts empty with the zero load time, which is expired for
\* every refresh period, so no call gets past loadConfig before a store read
\* was made; and when the first read returned the rows a, b and no other
\* read was made, a call returns the first row for "a", the second for "b"
\* and no record for any other package.
C9_FirstCallLoads ==
  /\ calls = 0 => cache = EmptyMap /\ lastLoadTime = ZeroTime /\ log = << >>
  /\ lastLoadTime = ZeroTime => ~(Sub(now, lastLoadTime) < refreshPeriod)
  /\ \A p \in Procs : PastRefresh(p) => Len(log) >= 1 /\ lastLoadTime # ZeroTime
  /\ (Len(log) = 1 /\ log[1].res = Content(<<"a", "b">>, 1)) =>
       \A p \in Procs :
         pc[p] = "done" =>
           result[p].rec = CASE appPkg[p] = "a" -> Record("a", 1, 1)
                             [] appPkg[p] = "b" -> Record("b", 1, 2)
                             [] OTHER -> NoRecord

\* three calls were made on one store read of the rows a, b; of the two that
\* returned last, one got the record of "b" and the other nothing for "c"
C9_Witness ==
  /\ calls = 3
  /\ Len(log) = 1
  /\ log[1].res = Content(<<"a", "b">>, 1)
  /\ \E p, q \in Procs :
       /\ pc[p] = "done" /\ pc[q] = "done"
       /\ appPkg[p] = "b" /\ result[p].rec = Record("b", 1, 2)
       /\ appPkg[q] = "c" /\ result[q].rec = NoRecord

\* C10: every call of AppPkgConfig that returns, returns a nil error, with a
\* record or without, after a reload or after the fast path.
C10_NeverAnError ==
  \A p \in Procs : pc[p] = "done" => result[p].err = "nil"

\* three calls were made on two store reads, so with and without a reload;
\* one of them returned a record, another returned none
C10_Witness ==
  /\ calls = 3
  /\ Loaded = {1, 2}
  /\ \E p, q \in Procs :
       /\ pc[p] = "done" /\ pc[q] = "done"
       /\ result[p].rec # NoRecord
       /\ result[q].rec = NoRecord

\* the step in which newConfig returns and globalConfig is set
Starts == ~startup.ready /\ startup'.ready

\* C11: newConfig never fails: the process stays alive and, whatever the
\* environment value, a config results; its refresh period is the parsed
\* value when the variable is set and parses, and one minute when it is unset
\* or malformed ("x", "2" without a unit); a period above five minutes is kept
\* as it is, with exactly one Warn entry, and no Warn entry is written
\* otherwise; the cache is empty and the load time is the zero time.
C11_NewConfigNeverFails ==
  /\ [](/\ alive
        /\ ~startup.ready => ENABLED newConfig
        /\ startup.ready =>
             /\ cache = EmptyMap
             /\ lastLoadTime = ZeroTime
             /\ startup.warn = (IF refreshPeriod > Minute * 5 THEN 1 ELSE 0))
  /\ [][Starts =>
          LET ds == startup.ds
              parsed == ParseDuration(ds)
          IN  /\ (ds # << >> /\ ~parsed.err) => refreshPeriod' = parsed.d
              /\ (ds = << >> \/ parsed.err) => refreshPeriod' = Minute
              /\ ds \in {<<"x">>, <<"2">>, <<"m">>} => refreshPeriod' = Minute
              /\ ds = <<"2", "m">> => refreshPeriod' = Minute * 2
              /\ ds = <<"8", "m">> => refreshPeriod' = Minute * 8]_vars

\* newConfig has returned a config with a period of eight minutes, has
\* logged the warning, and the process is alive
C11_Witness ==
  /\ alive
  /\ startup.ready
  /\ refreshPeriod = Minute * 8
  /\ startup.warn = 1
  /\ cache = EmptyMap
  /\ lastLoadTime = ZeroTime

\* the step in which p gets the exclusive lock and makes the staleness check
Checks(p) == pc[p] \in {"lock", "lockWait"} /\ pc'[p] \in {"read", "rlock"}
\* the step in which p's loadConfig returns without a reload
FastPath(p) == pc[p] \in {"lock", "lockWait"} /\ pc'[p] = "rlock"

\* C12: a caller that gets the lock while now - lastLoadTime < refreshPeriod
\* takes the fast path, and only such a caller does; the fast path makes no
\* store read, leaves the cache, the load time and the refresh period as
\* they are, and ends with the lock released.
C12_FastPathNoOp ==
  [][\A p \in Procs :
       /\ (Checks(p) /\ now - lastLoadTime < refreshPeriod) => FastPath(p)
       /\ FastPath(p) =>
            /\ now - lastLoadTime < refreshPeriod
            /\ UNCHANGED << cache, lastLoadTime, refreshPeriod, log, configs >>
            /\ mu' = [w |-> None, readers |-> {}]]_vars

\* a call that began on a fresh cache has come back from loadConfig without
\* a read; the only read made is the one of an earlier call
C12_Witness ==
  \E p \in Procs :
    /\ pc[p] = "rlock"
    /\ trace[p].expired = NoGen
    /\ trace[p].read = 0
    /\ trace[p].gen = 1
    /\ Len(log) = 1
    /\ mu.w = None

\* the step in which p's reload is complete and its loadConfig returns
Completes(p) == pc[p] = "range" /\ pc'[p] = "rlock"
\* no reload is between its first and its last write to the cache
Settled == \A p \in Procs : pc[p] # "range"

\* C13: when a reload completes, the keys of the cache are exactly the
\* package names among the rows that reload's store read returned, and so
\* they are whenever no reload is writing; a lookup of a package that was in
\* an earlier load but is not among the rows of the newest one finds nothing.
C13_FullReplace ==
  /\ []((Settled /\ Gen >= 1) => DOMAIN cache = KeysOf(log[Gen].res))
  /\ [][\A p \in Procs :
          /\ Completes(p) =>
               /\ DOMAIN cache' = KeysOf(configs[p])
               /\ configs[p] = log[trace[p].read].res
          /\ Returns(p) =>
               \A g \in Loaded :
                 (appPkg'[p] \in KeysOf(log[g].res) \ KeysOf(log[Gen].res))
                   => result'[p].rec = NoRecord]_vars

\* the second reload has just completed on rows without "a", which the first
\* load had, and the cache has no "a" any more
C13_Witness ==
  \E p \in Procs :
    /\ pc[p] = "rlock"
    /\ trace[p].read = 2
    /\ Gen = 2
    /\ KeysOf(log[1].res) = {"a", "b"}
    /\ KeysOf(log[2].res) = {"b"}
    /\ DOMAIN cache = {"b"}

\* C14: whenever no reload is writing, the cache holds for every package name
\* among the rows of the newest completed read the row that comes last among
\* those of that name; with the rows b, b it holds the second one, and that
\* is the record a lookup of "b" returns.
C14_LastWriteWins ==
  /\ []((Settled /\ Gen >= 1) =>
          LET rows == log[Gen].res
          IN  \A i \in DOMAIN rows :
                (\A j \in DOMAIN rows : j > i => rows[j].pkg # rows[i].pkg)
                  => cache[rows[i].pkg] = rows[i])
  /\ [][\A p \in Procs :
          (Returns(p) /\ Gen >= 1 /\ appPkg'[p] = "b"
             /\ log[Gen].res = Content(<<"b", "b">>, Gen))
            => result'[p].rec = Record("b", Gen, 2)]_vars

\* the newest read returned two rows for "b"; the cache holds the second and
\* a call has returned it
C14_Witness ==
  \E p \in Procs :
    /\ Settled
    /\ Gen >= 1
    /\ log[Gen].res = Content(<<"b", "b">>, Gen)
    /\ cache["b"] = Record("b", Gen, 2)
    /\ pc[p] = "done"
    /\ appPkg[p] = "b"
    /\ result[p].rec = Record("b", Gen, 2)

\* the step in which p gets the shared lock in appConfig
Enters(p) == pc[p] = "rlock" /\ pc'[p] = "lookup"

\* C15: a lookup holds the shared lock and nothing else: while it is inside
\* its critical section it is one of the readers, no caller is between the
\* staleness check and the end of a reload (in particular none has a store
\* read in flight), and a writer is at most waiting for the readers to
\* leave; several lookups may be inside at the same time; the steps of a
\* lookup make no store read and change neither the cache, the load time nor
\* the refresh period.
C15_LookupReadOnly ==
  /\ [](\A p \in Procs :
          pc[p] = "lookup" =>
            /\ p \in mu.readers
            /\ \A q \in Procs : ~InRefresh(q)
            /\ mu.w # None => pc[mu.w] = "lockWait")
  /\ [][\A p \in Procs :
          (Enters(p) \/ Returns(p)) =>
            /\ UNCHANGED << cache, lastLoadTime, refreshPeriod, log, configs >>
            /\ mu'.w = mu.w]_vars

\* two lookups hold the shared lock at the same time, on a loaded cache
C15_Witness ==
  \E p, q \in Procs :
    /\ p # q
    /\ pc[p] = "lookup" /\ pc[q] = "lookup"
    /\ mu.readers = {p, q}
    /\ cache # EmptyMap

\* the newest store read failed
LastFailed == log # << >> /\ log[Len(log)].state = "failed"

\* C16: with a fatal log call that returns, the caller whose store read
\* failed leaves loadConfig with the exclusive lock released and with the
\* cache and the load time as they were before its call; the lock is then
\* free for the others (a writer is at most waiting for readers while nobody
\* reloads), the process stays alive, and the caller that next gets the lock
\* after a failed read reads the store again.
C16_FatalReturnsReleases ==
  /\ [](/\ alive
        /\ (\A p \in Procs : ~InRefresh(p)) =>
             (mu.w # None => pc[mu.w] = "lockWait"))
  /\ [][\A p \in Procs :
          /\ (pc[p] = "read" /\ pc'[p] = "fatal") =>
               UNCHANGED << cache, lastLoadTime, mu >>
          /\ (pc[p] = "fatal" /\ pc'[p] # "fatal") =>
               /\ mu.w = p /\ mu'.w = None
               /\ pc'[p] = "rlock"
               /\ UNCHANGED << cache, lastLoadTime >>
               /\ cache = SnapshotOf(Gen)
               /\ lastLoadTime = (IF Gen = 0 THEN ZeroTime ELSE log[Gen].end)
          /\ (Checks(p) /\ LastFailed) =>
               pc'[p] = "read" /\ Len(log') = Len(log) + 1]_vars

\* a reload of the loaded cache failed and returned; a call that began
\* afterwards got the lock, read the store again, this time successfully,
\* and is inside its lookup
C16_Witness ==
  \E q \in Procs :
    /\ Len(log) = 3
    /\ log[1].state = "loaded"
    /\ log[2].state = "failed"
    /\ log[3].state = "loaded"
    /\ trace[q].late
    /\ trace[q].read = 3
    /\ pc[q] = "lookup"

\* the load time that goes with generation g
StampOf(g) == IF g = 0 THEN ZeroTime ELSE log[g].end

\* C17: the cache and the load time go together: whenever no reload is
\* writing they are the snapshot and the completion time of one and the same
\* load; either is changed only by the caller that holds the exclusive lock
\* with no reader inside, after its store read has returned rows; the load
\* time never decreases; and the step that completes a reload sets it to the
\* time of that step, which is not before the time the read was called and
\* is later than the load time it replaces.
C17_ChangeTogether ==
  /\ [](Settled => cache = SnapshotOf(Gen) /\ lastLoadTime = StampOf(Gen))
  /\ [][/\ lastLoadTime' >= lastLoadTime
        /\ (cache' # cache \/ lastLoadTime' # lastLoadTime) =>
             \E p \in Procs :
               /\ mu.w = p /\ mu.readers = {}
               /\ pc[p] \in {"read", "range"}
               /\ log'[trace[p].read].state \in {"building", "loaded"}
        /\ \A p \in Procs :
             Completes(p) =>
               /\ lastLoadTime' = now
               /\ lastLoadTime' >= trace[p].began
               /\ lastLoadTime' > lastLoadTime
               /\ cache' = MapOf(log[trace[p].read].res)]_vars

\* a reload has just completed, some time after its store read was called;
\* the load time is the time of the completion
C17_Witness ==
  \E p \in Procs :
    /\ pc[p] = "rlock"
    /\ trace[p].read = Gen
    /\ Gen >= 1
    /\ trace[p].began < now
    /\ lastLoadTime = now
    /\ cache = SnapshotOf(Gen)

\* the step in which p's loadConfig returns and releases the exclusive lock
Releases(p) == FastPath(p) \/ Completes(p)

\* C19: with a positive refresh period, when a call's loadConfig returns the
\* cache is the snapshot of a completed store read, the load time is not the
\* zero time, and less than refreshPeriod has passed since that load; hence a
\* lookup never works on the initial, never-loaded map.
C19_FreshAtRelease ==
  /\ [](/\ refreshPeriod > 0
        /\ \A p \in Procs :
             /\ pc[p] \in {"rlock", "lookup"} =>
                  Gen >= 1 /\ lastLoadTime # ZeroTime
             /\ pc[p] = "lookup" => \E g \in Loaded : cache = SnapshotOf(g))
  /\ [][\A p \in Procs :
          Releases(p) =>
            /\ Gen' >= 1
            /\ cache' = MapOf(log'[Gen'].res)
            /\ lastLoadTime' = log'[Gen'].end
            /\ now - lastLoadTime' < refreshPeriod
            /\ mu'.w = None]_vars

\* two calls have come back from loadConfig on the fresh first load, one
\* after reading the store, the other on the fast path
C19_Witness ==
  \E p, q \in Procs :
    /\ pc[p] = "rlock" /\ pc[q] = "rlock"
    /\ trace[p].read = 1 /\ trace[q].read = 0
    /\ Gen = 1
    /\ cache = SnapshotOf(1)
    /\ now - lastLoadTime < refreshPeriod

\* the callers that have not made their staleness check yet
Waiting == {p \in Procs : pc[p] \in {"lock", "lockWait"}}

\* C20: newConfig takes a value that parses to a zero or negative duration
\* as the refresh period ("0" gives 0, "-2m" minus two minutes); with such a
\* period no caller that gets the lock finds the cache fresh, so each call
\* reads the store once: there are as many reads as calls past that point, a
\* call returns only after a read of its own, and the reads are made one
\* after the other by the holder of the exclusive lock.
C20_NonPositiveAlwaysReads ==
  /\ [](startup.ready =>
          /\ refreshPeriod <= 0
          /\ Len(log) = calls - Cardinality(Waiting)
          /\ \A p \in Procs :
               /\ pc[p] \in {"rlock", "lookup"} => trace[p].read # 0
               /\ InRefresh(p) =>
                    /\ mu.w = p /\ mu.readers = {}
                    /\ trace[p].read = Len(log)
                    /\ \A q \in Procs \ {p} : ~InRefresh(q)
          /\ \A g \in DOMAIN log : g < Len(log) => log[g].state = "loaded")
  /\ [][/\ Starts =>
             /\ refreshPeriod' = ParseDuration(startup.ds).d
             /\ startup.ds = <<"0">> => refreshPeriod' = 0
             /\ startup.ds = <<"-", "2", "m">> => refreshPeriod' = 0 - Minute * 2
        /\ \A p \in Procs :
             /\ Checks(p) => pc'[p] = "read" /\ Len(log') = Len(log) + 1
             /\ ~FastPath(p)
             /\ Returns(p) => trace[p].read # 0]_vars

\* with a period of minus two minutes three calls were made while the clock
\* stood still, and each of them read the store
C20_Witness ==
  /\ startup.ready
  /\ refreshPeriod = 0 - Minute * 2
  /\ now = StartTime
  /\ calls = 3
  /\ Len(log) = 3
  /\ \A g \in DOMAIN log : log[g].state = "loaded"
  /\ \A p \in Procs : pc[p] = "done"

\* p is inside a call of AppPkgConfig
Busy(p) == pc[p] \notin {"idle", "done"}

\* C18: with a store that always answers and fair scheduling and locking,
\* every call of AppPkgConfig returns; as long as a call is in progress some
\* caller can take a step, whatever the interleaving; and a caller that is
\* not inside a call holds the lock neither exclusively nor shared.
C18_EveryCallReturns ==
  /\ [](\A p \in Procs : ~Busy(p) => mu.w # p /\ p \notin mu.readers)
  /\ []((\E p \in Procs : Busy(p)) =>
          \E p \in Procs : ENABLED (Runs(p) \/ Acquires(p)))
  /\ \A p \in Procs : (pc[p] = "lock") ~> (pc[p] = "done")

\* all the calls there can be have been made, by both callers and with a
\* reload after the first load; all have returned and the lock is free
C18_Witness ==
  /\ calls = MaxCalls
  /\ \A p \in Procs : pc[p] = "done"
  /\ Len(log) = 2
  /\ mu = [w |-> None, readers |-> {}]
====
